---------------------------- MODULE Spec2Model ----------------------------
(***************************************************************************)
(* A model of GemQuest (src/main.c): the world grid and its lookups, the   *)
(* load-time validation, the input callbacks, the redraw and the update    *)
(* tick (Game_onUpdate).                                                   *)
(*                                                                         *)
(* Numbers.  The program computes with C floats.  The model uses fixed     *)
(* point: lengths and velocities in 1/Unit world units, angles in 1/Unit   *)
(* degrees, brightness in 1/Unit, time in milliseconds (the program's own  *)
(* GLUT_ELAPSED_TIME unit).  Every product is rounded to the nearest       *)
(* integer, ties away from zero (RoundDiv).                                *)
(*                                                                         *)
(* Memory.  A read of map[] outside its entries is undefined behaviour: it *)
(* is modelled as a choice among every Field value and a crash.            *)
(***************************************************************************)
EXTENDS Integers, Sequences, FiniteSets, TLC

VARIABLES
  \* the game field (src/main.c 1719-1742); fixed once chosen
  map, mapWidth, mapDepth,
  \* the process: where main() is, what it registered, what it owns
  status, isLoaded, registered, timers, created, destroyed,
  \* input state written by the input callbacks
  inputForward, inputRight, inputBackwards, inputLeft, inputJump, inputAction,
  currentMouseX, currentMouseY, currentWindowWidth, currentWindowHeight,
  \* game state written by Game_onLoad and Game_onUpdate
  playerX, playerY, playerZ,
  playerAccerlationX, playerAccerlationY, playerAccerlationZ,
  playerRotationY, playerRotationX,
  playerRotationAccerlationY, playerRotationAccerlationX,
  itemRotationY, itemState, gameBrightness, lastUpdateTime, currentTimeMs,
  \* the environment's clock, glutGet(GLUT_ELAPSED_TIME)
  clock,
  \* observations: the last frame drawn, the last tick's record, event counts
  frame, lastTick, ticks, inputs,
  \* a lookup applied on its own, and what it returned
  query, answer

mapVars == <<map, mapWidth, mapDepth>>
procVars == <<status, isLoaded, registered, timers, created, destroyed>>
keyVars == <<inputForward, inputRight, inputBackwards, inputLeft, inputJump,
             inputAction>>
mouseVars == <<currentMouseX, currentMouseY>>
windowVars == <<currentWindowWidth, currentWindowHeight>>
playerVars == <<playerX, playerY, playerZ,
                playerAccerlationX, playerAccerlationY, playerAccerlationZ,
                playerRotationY, playerRotationX,
                playerRotationAccerlationY, playerRotationAccerlationX>>
gameVars == <<itemRotationY, itemState, gameBrightness, lastUpdateTime,
              currentTimeMs>>
obsVars == <<frame, lastTick, ticks, inputs>>
lookupVars == <<query, answer>>
vars == <<mapVars, procVars, keyVars, mouseVars, windowVars, playerVars,
          gameVars, clock, obsVars, lookupVars>>

---------------------------------------------------------------------------
(* Fixed point *)

\* One world unit, one degree, full brightness.
Unit == 1000

Abs(n) == IF n < 0 THEN -n ELSE n

Min(a, b) == IF a < b THEN a ELSE b

Max(a, b) == IF a > b THEN a ELSE b

\* n / d rounded to the nearest integer, ties away from zero (d > 0).
RoundDiv(n, d) ==
  IF n >= 0 THEN (2 * n + d) \div (2 * d)
            ELSE -((2 * (-n) + d) \div (2 * d))

\* (int)roundf(p) of a position p: round half away from zero.
roundf(p) == RoundDiv(p, Unit)

---------------------------------------------------------------------------
(* Field, ItemState and the maps *)

FieldInit == -2
Arch == -1
Tile == 0
Wall == 1
Item == 2
Goal == 3
Fields == {FieldInit, Arch, Tile, Wall, Item, Goal}

Initial == 0
Held == 1
Dropped == 2

\* The embedded 15 x 11 map, x-major: entry x * mapDepth + z.
EmbeddedWidth == 15
EmbeddedDepth == 11
EmbeddedMap ==
  << Wall, Wall, Wall, Wall, Wall, Wall, Wall, Wall, Wall, Wall, Wall,
     Wall, Tile, Tile, Tile, Tile, Wall, Tile, Tile, Tile, Tile, Wall,
     Wall, Tile, Wall, Wall, Wall, Wall, Wall, Wall, Wall, Tile, Wall,
     Wall, Tile, Tile, Tile, Tile, Tile, Tile, Tile, Wall, Tile, Wall,
     Wall, Wall, Wall, Wall, Wall, Tile, Wall, Wall, Wall, Tile, Wall,
     Wall, Tile, Goal, Tile, Wall, Tile, Wall, Tile, Wall, Tile, Wall,
     Wall, Tile, Tile, Tile, Wall, Tile, Wall, Tile, Tile, Tile, Wall,
     Wall, FieldInit, Tile, Tile, Arch, Tile, Wall, Tile, Wall, Tile, Wall,
     Wall, Tile, Tile, Tile, Wall, Tile, Tile, Tile, Wall, Tile, Wall,
     Wall, Tile, Tile, Tile, Wall, Wall, Wall, Wall, Wall, Tile, Wall,
     Wall, Wall, Wall, Wall, Wall, Tile, Tile, Tile, Tile, Tile, Wall,
     Wall, Tile, Tile, Tile, Tile, Tile, Wall, Wall, Wall, Wall, Wall,
     Wall, Tile, Wall, Wall, Wall, Wall, Wall, Tile, Tile, Item, Wall,
     Wall, Tile, Tile, Tile, Tile, Tile, Tile, Tile, Wall, Wall, Wall,
     Wall, Wall, Wall, Wall, Wall, Wall, Wall, Wall, Wall, Wall, Wall >>

\* Small grids the three map definitions could hold instead.  Each is
\* [w, d, cells]; the cells are x-major like the embedded map.

\* The item is probed before the goal; the item lies next to the spawn.
GridItemFirst ==
  [w |-> 3, d |-> 3,
   cells |-> << Tile, Tile, Tile,
                Item, FieldInit, Tile,
                Tile, Tile, Goal >>]

\* The goal is probed before the item.
GridGoalFirst ==
  [w |-> 3, d |-> 3,
   cells |-> << Goal, Tile, Tile,
                Tile, FieldInit, Tile,
                Tile, Tile, Item >>]

\* A spawn field walled in on all sides.
GridCell ==
  [w |-> 3, d |-> 3,
   cells |-> << Wall, Wall, Wall,
                Wall, FieldInit, Wall,
                Wall, Wall, Wall >>]

\* The spawn lies in the last row; the item is two columns away.
GridLastRow ==
  [w |-> 4, d |-> 2,
   cells |-> << Tile, Tile,
                Tile, FieldInit,
                Tile, Tile,
                Item, Tile >>]

GridEmbedded ==
  [w |-> EmbeddedWidth, d |-> EmbeddedDepth, cells |-> EmbeddedMap]

\* Grids that the load must refuse: no spawn point, and a data length that
\* is not width * depth.
GridNoSpawn ==
  [w |-> 2, d |-> 3,
   cells |-> << Tile, Item, Tile,
                Goal, Tile, Wall >>]

GridShort ==
  [w |-> 3, d |-> 2,
   cells |-> << FieldInit, Tile, Item,
                Goal, Tile >>]

GridLong ==
  [w |-> 2, d |-> 2,
   cells |-> << FieldInit, Tile, Item,
                Goal, Tile >>]

ValidGrids == {GridItemFirst, GridGoalFirst, GridCell, GridLastRow}

Grids == ValidGrids \cup {GridNoSpawn, GridShort, GridLong}

---------------------------------------------------------------------------
(* World model: positions, indices, lookups *)

\* What a lookup ends in: a field, the fatal error (Common_terminate), or
\* a read of map[] at an index outside the array.
Found(f) == [kind |-> "field", value |-> f]
Terminated == [kind |-> "terminate", value |-> 0]
Outside(i) == [kind |-> "outside", value |-> i]

\* LENGTHOF(map)
LengthOfMap == Len(map)

\* map[i], i counted from 0 as in C
MapRead(i) ==
  IF i >= 0 /\ i < LengthOfMap THEN Found(map[i + 1]) ELSE Outside(i)

Game_getMapFieldIndiciesByPosition(positionX, positionZ) ==
  [x |-> roundf(positionX), z |-> roundf(positionZ)]

Game_getMapFieldPositionByIndicies(indexX, indexZ) ==
  [x |-> indexX * Unit, z |-> indexZ * Unit]

Game_getMapFieldByIndicies(x, z) ==
  IF x < 0 \/ x > mapWidth \/ z < 0 \/ z > mapDepth
    THEN Terminated
    ELSE MapRead(x * mapDepth + z)

\* A lookup that strides the columns by the width of the map.
Mutant_ByPositionWidthStride(x, z) ==
  LET index == Game_getMapFieldIndiciesByPosition(x, z)
  IN  MapRead(index.x * mapWidth + index.z)

Game_getMapFieldByPosition(x, z) ==
  LET index == Game_getMapFieldIndiciesByPosition(x, z)
  IN  MapRead(index.x * mapDepth + index.z)

\* Whether indices name a cell of the grid.
InGrid(x, z) == x >= 0 /\ x < mapWidth /\ z >= 0 /\ z < mapDepth

---------------------------------------------------------------------------
(* Program constants, in fixed point (per second where the source says so) *)

CALCULATION_TRESHOLD == 10
UPDATE_TIMEOUT_MS == 30
PLAYER_MAX_SPEED == 200
PLAYER_JUMP_SPEED == 1800
PLAYER_FRICTION == 5000
PLAYER_GRAVITY == 80
ITEM_ROTATION_SPEED == 45000
FADEOUT_SPEED == 500
FLOOR_BOUNCYNESS == 250
MOUSE_SPEED == 1750
MOUSE_FRICTION == 7500
DEFAULT_WINDOW_WIDTH == 640
DEFAULT_WINDOW_HEIGHT == 480

---------------------------------------------------------------------------
(* Bounds of the model and the environment's inputs *)

\* Callbacks dispatched per run: update ticks and all others together.
MaxEvents == 4
\* How far outside the grid the stand-alone lookups are asked.
LookupMargin == 2
\* Width and depth of the maps the load is tried on, one by one.
LoadWidth == 2
LoadDepth == 2
\* Milliseconds of game time after which a long run takes no further
\* tick, unless the fade-out is under way.
MaxClock == 2100
\* Milliseconds of game time in which a jump run takes ticks of any
\* length; from then on the ticks come at the timer period, until the
\* player is at rest.
MaxJumpClock == 300
\* Milliseconds of game time a quest run may take.
MaxQuestClock == 66000
\* Ticks of a paced run.
MaxPaceTicks == 2
\* By how many 1/Unit two results may differ for the rounding of the
\* fixed-point arithmetic.
PaceTolerance == 2

\* Milliseconds between two ticks: the nominal timer period, and two
\* stalls of the event loop.
Deltas == {UPDATE_TIMEOUT_MS, 200, 1000}

\* Keys the keyboard delivers, of the seven the game binds ("esc" is key
\* code 27): one key per axis, jump, interact and quit.
Keys == {"w", "d", " ", "e", "esc"}

\* Pointer positions the mouse delivers: a point left of the centre of
\* the default window.
MousePositions == {<<280, 240>>}

\* Window sizes a reshape delivers.
WindowSizes == {<<DEFAULT_WINDOW_WIDTH, DEFAULT_WINDOW_HEIGHT>>}

---------------------------------------------------------------------------
(* Initial state: the globals as the C file initialises them *)

NoTick ==
  [seen |-> FALSE, end |-> "ok", dt |-> 0, startItem |-> Initial,
   action |-> FALSE, fromX |-> 0, fromZ |-> 0, velX |-> 0, velZ |-> 0,
   candX |-> 0, candZ |-> 0, look |-> Terminated, field |-> 0,
   moved |-> "none", destroys |-> FALSE, posted |-> 0, armed |-> 0]

NoFrame == [drawn |-> FALSE, item |-> Initial, crystal |-> {}]

NoQuery == [op |-> "none", x |-> 0, z |-> 0]

Globals ==
  /\ status = "start" /\ isLoaded = FALSE /\ registered = FALSE
  /\ timers = 0 /\ created = 0 /\ destroyed = 0
  /\ inputForward = FALSE /\ inputRight = FALSE /\ inputBackwards = FALSE
  /\ inputLeft = FALSE /\ inputJump = FALSE /\ inputAction = FALSE
  /\ currentMouseX = 0 /\ currentMouseY = 0
  /\ currentWindowWidth = 0 /\ currentWindowHeight = 0
  /\ playerX = 0 /\ playerY = 0 /\ playerZ = 0
  /\ playerAccerlationX = 0 /\ playerAccerlationY = 0
  /\ playerAccerlationZ = 0
  /\ playerRotationY = 0 /\ playerRotationX = 0
  /\ playerRotationAccerlationY = 0 /\ playerRotationAccerlationX = 0
  /\ itemRotationY = 0 /\ itemState = Initial /\ gameBrightness = 0
  /\ lastUpdateTime = 0 /\ currentTimeMs = 0
  /\ clock = 0
  /\ frame = NoFrame /\ lastTick = NoTick /\ ticks = 0 /\ inputs = 0
  /\ query = NoQuery /\ answer = Terminated

Init ==
  /\ \E g \in Grids : map = g.cells /\ mapWidth = g.w /\ mapDepth = g.d
  /\ Globals

---------------------------------------------------------------------------
(* Game_onLoad and main *)

\* The spawn search of Game_onLoad, loop by loop: the counters after the
\* inner loop left at <<x, z, found>>.
RECURSIVE SpawnInner(_, _, _)
SpawnInner(spawnX, spawnZ, spawnPointFound) ==
  IF spawnZ < mapDepth /\ ~spawnPointFound
    THEN IF Game_getMapFieldByIndicies(spawnX, spawnZ) = Found(FieldInit)
           THEN SpawnInner(spawnX - 1, (spawnZ - 1) + 1, TRUE)
           ELSE SpawnInner(spawnX, spawnZ + 1, spawnPointFound)
    ELSE <<spawnX, spawnZ, spawnPointFound>>

RECURSIVE SpawnOuter(_, _, _)
SpawnOuter(spawnX, spawnZ, spawnPointFound) ==
  IF spawnX < mapWidth /\ ~spawnPointFound
    THEN LET r == SpawnInner(spawnX, 0, spawnPointFound)
         IN  SpawnOuter(r[1] + 1, r[2], r[3])
    ELSE <<spawnX, spawnZ, spawnPointFound>>

\* A search that goes on to the last spawn point of the map.
Mutant_SpawnSearchLast ==
  LET spawns == {i \in 1 .. Len(map) : map[i] = FieldInit}
      last == CHOOSE i \in spawns : \A k \in spawns : k <= i
  IN  IF spawns = {}
        THEN <<mapWidth, mapDepth, FALSE>>
        ELSE <<(last - 1) \div mapDepth, (last - 1) % mapDepth, TRUE>>

\* A search that leaves the loops without taking the counters back: both
\* are one past the spawn point.
Mutant_SpawnSearchNoDecrement ==
  LET r == SpawnOuter(0, 0, FALSE)
  IN  IF r[3] THEN <<r[1] + 1, r[2] + 1, TRUE>> ELSE r

SpawnSearch == SpawnOuter(0, 0, FALSE)

\* A size check that only asks for enough fields.
Mutant_MapSizeAtLeast == LengthOfMap >= mapWidth * mapDepth

\* The size check of Game_onLoad.
MapSizeMatches == LengthOfMap = mapWidth * mapDepth

\* Common_terminate: exit(1).
Fatal == status' = "fatal"

\* Game_onLoad, called once by main before any callback is registered.
\* shaderOk: whether the driver compiled and linked the shaders.
Game_onLoad ==
  /\ status = "start"
  /\ \E shaderOk \in BOOLEAN :
       IF isLoaded \/ ~shaderOk \/ ~MapSizeMatches
         THEN /\ Fatal
              /\ lastUpdateTime' = IF isLoaded THEN lastUpdateTime ELSE clock
              /\ UNCHANGED <<isLoaded, created, playerX, playerZ>>
         ELSE LET spawn == SpawnSearch
                  position ==
                    Game_getMapFieldPositionByIndicies(spawn[1], spawn[2])
              IN  /\ lastUpdateTime' = clock
                  /\ playerX' = position.x
                  /\ playerZ' = position.z
                  /\ IF ~spawn[3]
                       THEN Fatal /\ UNCHANGED <<isLoaded, created>>
                       ELSE /\ status' = "loaded"
                            /\ isLoaded' = TRUE
                            /\ created' = created + 1
  /\ UNCHANGED <<mapVars, registered, timers, destroyed, keyVars, mouseVars,
                 windowVars, playerY, playerAccerlationX, playerAccerlationY,
                 playerAccerlationZ, playerRotationY, playerRotationX,
                 playerRotationAccerlationY, playerRotationAccerlationX,
                 itemRotationY, itemState, gameBrightness, currentTimeMs,
                 clock, obsVars, lookupVars>>

\* main after Game_onLoad returned: the callbacks and the first timer are
\* registered and glutMainLoop is entered.
MainLoop ==
  /\ status = "loaded"
  /\ status' = "running"
  /\ registered' = TRUE
  /\ timers' = timers + 1
  /\ UNCHANGED <<mapVars, isLoaded, created, destroyed, keyVars, mouseVars,
                 windowVars, playerVars, gameVars, clock, obsVars,
                 lookupVars>>

\* glutMainLoop returns once glutLeaveMainLoop was called and the events
\* of the current round are through; main returns 0.
MainReturn ==
  /\ status = "leaving"
  /\ status' = "exited"
  /\ UNCHANGED <<mapVars, isLoaded, registered, timers, created, destroyed,
                 keyVars, mouseVars, windowVars, playerVars, gameVars, clock,
                 obsVars, lookupVars>>

\* Callbacks are dispatched while the main loop runs, and still in the
\* round in which glutLeaveMainLoop was called.
Dispatching == registered /\ status \in {"running", "leaving"}

---------------------------------------------------------------------------
(* Game_onDestroy and the input callbacks *)

\* Game_onDestroy as a function of the process state: the meshes and the
\* shader program are released and glutLeaveMainLoop is called, if
\* isLoaded; isLoaded itself is left as it is.
DestroyedAfter(n) == IF isLoaded THEN n + 1 ELSE n

StatusAfterDestroy(s) == IF isLoaded THEN "leaving" ELSE s

\* A callback other than the tick is dispatched: one more of the
\* MaxEvents of a run.
Dispatched ==
  /\ Dispatching
  /\ ticks + inputs < MaxEvents
  /\ inputs' = inputs + 1

InputEvent == Dispatched /\ UNCHANGED <<frame, lastTick, ticks>>

\* Whether the key's input flag is set (a key is released after it was
\* pressed).
Pressed(key) ==
  \/ key = "w" /\ inputForward
  \/ key = "s" /\ inputBackwards
  \/ key = "a" /\ inputLeft
  \/ key = "d" /\ inputRight
  \/ key = " " /\ inputJump
  \/ key = "e" /\ inputAction

\* The switch of Game_onKeyboardDown.
KeyboardDown(key) ==
  /\ inputForward' = IF key = "w" THEN TRUE ELSE inputForward
  /\ inputBackwards' = IF key = "s" THEN TRUE ELSE inputBackwards
  /\ inputLeft' = IF key = "a" THEN TRUE ELSE inputLeft
  /\ inputRight' = IF key = "d" THEN TRUE ELSE inputRight
  /\ inputJump' = IF key = " " THEN TRUE ELSE inputJump
  /\ inputAction' = IF key = "e" THEN TRUE ELSE inputAction
  /\ destroyed' = IF key = "esc" THEN DestroyedAfter(destroyed)
                                 ELSE destroyed
  /\ status' = IF key = "esc" THEN StatusAfterDestroy(status) ELSE status
  /\ UNCHANGED <<mapVars, isLoaded, registered, timers, created, mouseVars,
                 windowVars, playerVars, gameVars, clock, lookupVars>>

Game_onKeyboardDown(key) == InputEvent /\ KeyboardDown(key)

\* The switch of Game_onKeyboardUp.
KeyboardUp(key) ==
  /\ Pressed(key)
  /\ inputForward' = IF key = "w" THEN FALSE ELSE inputForward
  /\ inputBackwards' = IF key = "s" THEN FALSE ELSE inputBackwards
  /\ inputLeft' = IF key = "a" THEN FALSE ELSE inputLeft
  /\ inputRight' = IF key = "d" THEN FALSE ELSE inputRight
  /\ inputJump' = IF key = " " THEN FALSE ELSE inputJump
  /\ inputAction' = IF key = "e" THEN FALSE ELSE inputAction
  /\ UNCHANGED <<mapVars, procVars, mouseVars, windowVars, playerVars,
                 gameVars, clock, lookupVars>>

Game_onKeyboardUp(key) == InputEvent /\ KeyboardUp(key)

\* currentWindowWidth / 2.0f
Captured(windowSize) == (windowSize * Unit) \div 2

\* A mouse callback that turns the player itself instead of leaving the
\* turn to the tick.
Mutant_MouseMoveTurnsPlayer(mouseX, mouseY) ==
  /\ InputEvent
  /\ currentMouseX' = mouseX
  /\ currentMouseY' = mouseY
  /\ playerRotationY' =
       playerRotationY + (Captured(currentWindowWidth) - mouseX * Unit)
  /\ UNCHANGED <<mapVars, procVars, keyVars, windowVars, playerX, playerY,
                 playerZ, playerAccerlationX, playerAccerlationY,
                 playerAccerlationZ, playerRotationX,
                 playerRotationAccerlationY, playerRotationAccerlationX,
                 gameVars, clock, lookupVars>>

Game_onMouseMove(mouseX, mouseY) ==
  /\ InputEvent
  /\ currentMouseX' = mouseX
  /\ currentMouseY' = mouseY
  /\ UNCHANGED <<mapVars, procVars, keyVars, windowVars, playerVars,
                 gameVars, clock, lookupVars>>

\* The reshape callback; the projection it uploads is not modelled.
Game_onResize(newWidth, newHeight) ==
  /\ InputEvent
  /\ currentWindowWidth' = newWidth
  /\ currentWindowHeight' = newHeight
  /\ UNCHANGED <<mapVars, procVars, keyVars, mouseVars, playerVars, gameVars,
                 clock, lookupVars>>

---------------------------------------------------------------------------
(* Game_onRedraw: which quest-item (crystal) meshes a frame draws *)

\* The squared distance, in 1/Unit^2, from which on a field is skipped:
\* distanceOpacity = 1 - MIN(MAX(distance - 4, 0), 1) < EPSILON, that is
\* distance > 4.9999.
SkipDistanceSquared == 24999000

FieldDrawn(x, z) ==
  LET position == Game_getMapFieldPositionByIndicies(x, z)
      dx == position.x - playerX
      dz == position.z - playerZ
  IN  /\ Abs(dx) <= 5 * Unit /\ Abs(dz) <= 5 * Unit
      /\ dx * dx + dz * dz <= SkipDistanceSquared

\* A frame that draws the crystal on every item field it shows, whatever
\* the item state.
Mutant_CrystalDrawsItemAlways ==
  (IF itemState = Held THEN {"player"} ELSE {})
  \cup
  UNION { IF ~FieldDrawn(x, z) THEN {}
          ELSE LET currentField == map[x * mapDepth + z + 1]
               IN  IF currentField = Item
                     THEN {"item"}
                     ELSE IF currentField = Goal /\ itemState = Dropped
                            THEN {"goal"}
                            ELSE {}
          : x \in 0 .. mapWidth - 1, z \in 0 .. mapDepth - 1 }

\* The branches of Game_onRedraw that draw crystalMesh, in this frame.
CrystalDraws ==
  (IF itemState = Held THEN {"player"} ELSE {})
  \cup
  UNION { IF ~FieldDrawn(x, z) THEN {}
          ELSE LET currentField == map[x * mapDepth + z + 1]
               IN  IF currentField = Item /\ itemState = Initial
                     THEN {"item"}
                     ELSE IF currentField = Goal /\ itemState = Dropped
                            THEN {"goal"}
                            ELSE {}
          : x \in 0 .. mapWidth - 1, z \in 0 .. mapDepth - 1 }

Game_onRedraw ==
  /\ Dispatched
  /\ frame' = [drawn |-> TRUE, item |-> itemState, crystal |-> CrystalDraws]
  /\ UNCHANGED <<mapVars, procVars, keyVars, mouseVars, windowVars,
                 playerVars, gameVars, clock, lastTick, ticks, lookupVars>>

---------------------------------------------------------------------------
(* Arithmetic of the update tick *)

\* a * b of two fixed-point numbers, rounded to nearest, ties away from
\* zero; split so that the intermediate product stays small.
MulNat(a, b) == (a \div Unit) * b + (2 * (a % Unit) * b + Unit) \div (2 * Unit)

Mul(a, b) ==
  IF (a < 0) = (b < 0) THEN MulNat(Abs(a), Abs(b))
                       ELSE -MulNat(Abs(a), Abs(b))

\* a / b of two fixed-point numbers (b > 0).
Div(a, b) == RoundDiv(a * Unit, b)

\* The largest r in lo .. hi with r * r <= n.
RECURSIVE SqrtBetween(_, _, _)
SqrtBetween(n, lo, hi) ==
  IF lo >= hi THEN lo
  ELSE LET mid == (lo + hi + 1) \div 2
       IN  IF mid * mid <= n THEN SqrtBetween(n, mid, hi)
                             ELSE SqrtBetween(n, lo, mid - 1)

\* sqrt(v) of a fixed-point v in 0 .. 4.
sqrt(v) == SqrtBetween(v * Unit, 0, 2 * Unit)

\* sin at the multiples of 15 degrees, in 1/Unit.
SinTable ==
  << 0, 259, 500, 707, 866, 966, 1000, 966, 866, 707, 500, 259,
     0, -259, -500, -707, -866, -966, -1000, -966, -866, -707, -500, -259 >>

\* sin(Common_degToRad(deg)) and cos(Common_degToRad(deg)), taken at the
\* multiple of 15 degrees nearest to deg.
sin(deg) == SinTable[(RoundDiv(deg, 15 * Unit) % 24) + 1]

cos(deg) == sin(deg + 90 * Unit)

---------------------------------------------------------------------------
(* Game_onUpdate, part by part.  deltaSeconds is in 1/Unit seconds, which *)
(* is the clock's millisecond.                                             *)

ItemRotationAfter(deltaSeconds) ==
  itemRotationY + Mul(deltaSeconds, ITEM_ROTATION_SPEED)

\* A fade-in without the MIN that stops it at 1.
Mutant_BrightnessNoClamp(deltaSeconds) ==
  IF itemState = Initial /\ gameBrightness < Unit
    THEN gameBrightness + Mul(FADEOUT_SPEED, deltaSeconds)
    ELSE IF itemState = Dropped /\ gameBrightness > 0
           THEN gameBrightness - Mul(FADEOUT_SPEED, deltaSeconds)
           ELSE gameBrightness

\* A fade-in that assigns the step instead of adding it.
Mutant_BrightnessNotAccumulated(deltaSeconds) ==
  IF itemState = Initial /\ gameBrightness < Unit
    THEN Min(Unit, Mul(FADEOUT_SPEED, deltaSeconds))
    ELSE IF itemState = Dropped /\ gameBrightness > 0
           THEN gameBrightness - Mul(FADEOUT_SPEED, deltaSeconds)
           ELSE gameBrightness

\* A fade that leaves FADEOUT_SPEED out: one unit per second.
Mutant_BrightnessUnscaled(deltaSeconds) ==
  IF itemState = Initial /\ gameBrightness < Unit
    THEN Min(Unit, gameBrightness + deltaSeconds)
    ELSE IF itemState = Dropped /\ gameBrightness > 0
           THEN gameBrightness - deltaSeconds
           ELSE gameBrightness

\* The fade: in while the item is at its place, out once it is dropped.
BrightnessAfter(deltaSeconds) ==
  IF itemState = Initial /\ gameBrightness < Unit
    THEN Min(Unit, gameBrightness + Mul(FADEOUT_SPEED, deltaSeconds))
    ELSE IF itemState = Dropped /\ gameBrightness > 0
           THEN gameBrightness - Mul(FADEOUT_SPEED, deltaSeconds)
           ELSE gameBrightness

\* A completion that waits for the brightness to be below 0.
Mutant_TickDestroysBelowZero ==
  /\ ~(itemState = Initial /\ gameBrightness < Unit)
  /\ itemState = Dropped
  /\ gameBrightness < 0

\* Whether this tick takes the branch that calls Game_onDestroy.
TickDestroys ==
  /\ ~(itemState = Initial /\ gameBrightness < Unit)
  /\ itemState = Dropped
  /\ ~(gameBrightness > 0)

\* A mouse speed that leaves the brightness out.
Mutant_MouseSpeedUnscaled(captured, currentMouse, brightness) ==
  captured - currentMouse * Unit

MouseSpeed(captured, currentMouse, brightness) ==
  Mul(captured - currentMouse * Unit, brightness)

\* A look rate after the mouse impulse and the mouse friction.
RotationAccerlationAfter(rate, mouseSpeed, deltaSeconds) ==
  LET pushed == rate + Mul(Mul(mouseSpeed, MOUSE_SPEED), deltaSeconds)
  IN  pushed - Mul(Mul(pushed, MOUSE_FRICTION), deltaSeconds)

\* The raw input axis, normalised if longer than 1.
AxisAccerlation ==
  LET newAxisAccerlationX ==
        (IF inputRight THEN Unit ELSE 0) - (IF inputLeft THEN Unit ELSE 0)
      newAxisAccerlationZ ==
        (IF inputForward THEN Unit ELSE 0)
          - (IF inputBackwards THEN Unit ELSE 0)
      newAxisAccerlation ==
        sqrt(Mul(newAxisAccerlationX, newAxisAccerlationX)
               + Mul(newAxisAccerlationZ, newAxisAccerlationZ))
  IN  IF Abs(newAxisAccerlation) > Unit
        THEN [x |-> Div(newAxisAccerlationX, newAxisAccerlation),
              z |-> Div(newAxisAccerlationZ, newAxisAccerlation)]
        ELSE [x |-> newAxisAccerlationX, z |-> newAxisAccerlationZ]

\* The axis rotated by the yaw.
NewAccerlation(axis, rotationY) ==
  [x |-> Mul(axis.x, cos(rotationY)) - Mul(axis.z, sin(rotationY)),
   z |-> Mul(axis.z, cos(rotationY)) + Mul(axis.x, sin(rotationY))]

\* A horizontal velocity component after the input push and the friction.
PlayerFrictionAfter(pushed, deltaSeconds) ==
  pushed - Mul(pushed, Mul(deltaSeconds, PLAYER_FRICTION))

HorizontalAccerlationAfter(accerlation, newAccerlation, deltaSeconds) ==
  PlayerFrictionAfter(
    accerlation + Mul(newAccerlation, Mul(deltaSeconds, PLAYER_MAX_SPEED)),
    deltaSeconds)

\* A vertical step that asks for the jump key before it asks for the
\* height.
Mutant_VerticalJumpFirst(deltaSeconds) ==
  IF inputJump
    THEN Mul(PLAYER_JUMP_SPEED, deltaSeconds)
    ELSE IF playerY > CALCULATION_TRESHOLD
      THEN playerAccerlationY - Mul(PLAYER_GRAVITY, deltaSeconds)
      ELSE IF Abs(playerAccerlationY) > CALCULATION_TRESHOLD
        THEN Mul(-playerAccerlationY, FLOOR_BOUNCYNESS)
        ELSE 0

\* Gravity, jump, floor bounce or rest.
VerticalAccerlationAfter(deltaSeconds) ==
  IF playerY > CALCULATION_TRESHOLD
    THEN playerAccerlationY - Mul(PLAYER_GRAVITY, deltaSeconds)
    ELSE IF inputJump
      THEN Mul(PLAYER_JUMP_SPEED, deltaSeconds)
      ELSE IF Abs(playerAccerlationY) > CALCULATION_TRESHOLD
        THEN Mul(-playerAccerlationY, FLOOR_BOUNCYNESS)
        ELSE 0

\* A new height without the MAX that keeps it on the floor.
Mutant_HeightUnclamped(accerlationY) == playerY + accerlationY

\* newPlayerY
HeightAfter(accerlationY) == Max(0, playerY + accerlationY)

\* A collision test that lets the player onto tiles only.
Mutant_WalkableTileOnly(newPlayerField) == newPlayerField = Tile

\* A collision test that lets the player onto the item and the goal.
Mutant_WalkableUnlessWall(newPlayerField) == newPlayerField # Wall

\* newPlayerField <= 0: the candidate position is taken.
Walkable(newPlayerField) == newPlayerField <= 0

\* What a lookup gives its caller: the field, the fatal error, or, for a
\* read outside the array, any field value or a crash.
Resolve(lookup) ==
  CASE lookup.kind = "field" -> {[end |-> "ok", value |-> lookup.value]}
    [] lookup.kind = "terminate" -> {[end |-> "fatal", value |-> 0]}
    [] OTHER -> {[end |-> "ok", value |-> f] : f \in Fields}
                  \cup {[end |-> "crashed", value |-> 0]}

\* An interaction that puts a held item back when the item field is probed.
Mutant_InteractPutsBack(state, probedField) ==
  IF probedField = Item
    THEN (IF state = Initial THEN Held
          ELSE IF state = Held THEN Initial ELSE state)
    ELSE IF probedField = Goal /\ state = Held
           THEN Dropped
           ELSE state

\* One probed field against the item state.
InteractStep(state, probedField) ==
  IF probedField = Item /\ state = Initial
    THEN Held
    ELSE IF probedField = Goal /\ state = Held
           THEN Dropped
           ELSE state

\* The nine probes around a field, in the order of the two loops.
ProbeCells(fieldX, fieldZ) ==
  [k \in 1 .. 9 |->
     [x |-> fieldX - 1 + ((k - 1) \div 3), z |-> fieldZ - 1 + ((k - 1) % 3)]]

\* The probe loops from the i-th probe on.  live: the item states the
\* loops can be in; done: the runs already ended by a fatal error or a
\* crash.  Gives every [item, end] the loops can end in.
RECURSIVE Probe(_, _, _, _)
Probe(cells, i, live, done) ==
  IF i > Len(cells) \/ live = {}
    THEN done \cup {[item |-> s, end |-> "ok"] : s \in live}
    ELSE LET reads ==
               Resolve(Game_getMapFieldByIndicies(cells[i].x, cells[i].z))
             stops == {r \in reads : r.end # "ok"}
             goes == {r \in reads : r.end = "ok"}
         IN  Probe(cells, i + 1,
                   {InteractStep(s, r.value) : s \in live, r \in goes},
                   done \cup {[item |-> s, end |-> r.end] :
                                s \in live, r \in stops})

\* The interaction block of the tick, from the position after the move.
Interaction(positionX, positionZ) ==
  IF inputAction
    THEN LET current == Game_getMapFieldIndiciesByPosition(positionX,
                                                            positionZ)
         IN  Probe(ProbeCells(current.x, current.z), 1, {itemState}, {})
    ELSE {[item |-> itemState, end |-> "ok"]}

---------------------------------------------------------------------------
(* Game_onUpdate *)

\* The velocity, the candidate position and the lookup of the collision
\* step of a tick that comes dt milliseconds after the last clock reading.
CollisionStep(dt) ==
  LET deltaSeconds == (clock + dt) - lastUpdateTime
      brightness == BrightnessAfter(deltaSeconds)
      mouseSpeedX ==
        MouseSpeed(Captured(currentWindowWidth), currentMouseX, brightness)
      rotationY ==
        playerRotationY
          + RotationAccerlationAfter(playerRotationAccerlationY, mouseSpeedX,
                                     deltaSeconds)
      newAccerlation == NewAccerlation(AxisAccerlation, rotationY)
      accerlationX ==
        HorizontalAccerlationAfter(playerAccerlationX, newAccerlation.x,
                                   deltaSeconds)
      accerlationZ ==
        HorizontalAccerlationAfter(playerAccerlationZ, newAccerlation.z,
                                   deltaSeconds)
  IN  [velX |-> accerlationX, velZ |-> accerlationZ,
       candX |-> playerX + accerlationX, candZ |-> playerZ + accerlationZ]

CollisionLookup(dt) ==
  Game_getMapFieldByPosition(CollisionStep(dt).candX, CollisionStep(dt).candZ)

\* A tick that ends without arming the timer again.
Mutant_TimerNotArmed(pending) == pending

\* glutTimerFunc at the end of the tick: one more timer is pending.
TimersAfterTick(pending) == pending + 1

\* The tick.  dt: the milliseconds the clock advanced since the last
\* reading.  read: what the collision lookup gave (Resolve).
UpdateWith(dt, read) ==
  LET currentUpdateTime == clock + dt
      deltaSeconds == currentUpdateTime - lastUpdateTime
      brightness == BrightnessAfter(deltaSeconds)
      destroys == TickDestroys
      mouseSpeedX ==
        MouseSpeed(Captured(currentWindowWidth), currentMouseX, brightness)
      mouseSpeedY ==
        MouseSpeed(Captured(currentWindowHeight), currentMouseY, brightness)
      rotationAccerlationX ==
        RotationAccerlationAfter(playerRotationAccerlationX, mouseSpeedY,
                                 deltaSeconds)
      rotationAccerlationY ==
        RotationAccerlationAfter(playerRotationAccerlationY, mouseSpeedX,
                                 deltaSeconds)
      rotationX == playerRotationX + rotationAccerlationX
      rotationY == playerRotationY + rotationAccerlationY
      step == CollisionStep(dt)
      accerlationX == step.velX
      accerlationZ == step.velZ
      accerlationY == VerticalAccerlationAfter(deltaSeconds)
      newPlayerX == step.candX
      newPlayerY == HeightAfter(accerlationY)
      newPlayerZ == step.candZ
      lookup == Game_getMapFieldByPosition(newPlayerX, newPlayerZ)
      taken == Walkable(read.value)
      movedX == IF taken THEN newPlayerX ELSE playerX + (-accerlationX)
      movedZ == IF taken THEN newPlayerZ ELSE playerZ + (-accerlationZ)
      record ==
        [seen |-> TRUE, end |-> read.end, dt |-> deltaSeconds,
         startItem |-> itemState, action |-> inputAction,
         fromX |-> playerX, fromZ |-> playerZ,
         velX |-> accerlationX, velZ |-> accerlationZ,
         candX |-> newPlayerX, candZ |-> newPlayerZ,
         look |-> lookup, field |-> read.value,
         moved |-> "none", destroys |-> destroys, posted |-> 0, armed |-> 0]
  IN  /\ clock' = currentUpdateTime
      /\ currentTimeMs' = currentUpdateTime % 1000
      /\ itemRotationY' = ItemRotationAfter(deltaSeconds)
      /\ gameBrightness' = brightness
      /\ destroyed' = IF destroys THEN DestroyedAfter(destroyed)
                                  ELSE destroyed
      /\ playerRotationAccerlationX' = rotationAccerlationX
      /\ playerRotationAccerlationY' = rotationAccerlationY
      /\ playerRotationX' = rotationX
      /\ playerRotationY' = rotationY
      /\ playerAccerlationY' = accerlationY
      /\ IF read.end # "ok"
           THEN \* the lookup ended the process before the move
                /\ status' = read.end
                /\ playerAccerlationX' = accerlationX
                /\ playerAccerlationZ' = accerlationZ
                /\ lastTick' = record
                /\ timers' = timers - 1
                /\ UNCHANGED <<playerX, playerY, playerZ, itemState,
                               lastUpdateTime>>
           ELSE /\ playerX' = movedX
                /\ playerZ' = movedZ
                /\ playerAccerlationX' =
                     IF taken THEN accerlationX ELSE -accerlationX
                /\ playerAccerlationZ' =
                     IF taken THEN accerlationZ ELSE -accerlationZ
                /\ playerY' = newPlayerY
                /\ \E probed \in Interaction(movedX, movedZ) :
                     /\ itemState' = probed.item
                     /\ lastTick' =
                          [record EXCEPT
                             !.end = probed.end,
                             !.moved = IF taken THEN "committed"
                                                ELSE "rejected",
                             !.posted = IF probed.end = "ok" THEN 1 ELSE 0,
                             !.armed = IF probed.end = "ok" THEN 1 ELSE 0]
                     /\ IF probed.end = "ok"
                          THEN \* glutPostRedisplay, then the timer again
                               /\ status' = IF destroys
                                              THEN StatusAfterDestroy(status)
                                              ELSE status
                               /\ lastUpdateTime' = currentUpdateTime
                               /\ timers' = TimersAfterTick(timers - 1)
                          ELSE /\ status' = probed.end
                               /\ timers' = timers - 1
                               /\ UNCHANGED lastUpdateTime

\* The timer fires and glut calls Game_onUpdate.
Game_onUpdate ==
  /\ Dispatching
  /\ timers > 0
  /\ ticks + inputs < MaxEvents
  /\ ticks' = ticks + 1
  /\ \E dt \in Deltas :
       \E read \in Resolve(CollisionLookup(dt)) : UpdateWith(dt, read)
  /\ UNCHANGED <<mapVars, isLoaded, registered, created, keyVars, mouseVars,
                 windowVars, frame, inputs, lookupVars>>

---------------------------------------------------------------------------
(* The game as a whole *)

Next ==
  \/ Game_onLoad
  \/ MainLoop
  \/ MainReturn
  \/ \E key \in Keys : Game_onKeyboardDown(key)
  \/ \E key \in Keys : Game_onKeyboardUp(key)
  \/ \E position \in MousePositions :
       Game_onMouseMove(position[1], position[2])
  \/ \E size \in WindowSizes : Game_onResize(size[1], size[2])
  \/ Game_onRedraw
  \/ Game_onUpdate

Spec == Init /\ [][Next]_vars

---------------------------------------------------------------------------
(* The lookups on their own *)

LookupGrids == ValidGrids \cup {GridEmbedded}

InitLookup ==
  /\ \E g \in LookupGrids : map = g.cells /\ mapWidth = g.w /\ mapDepth = g.d
  /\ Globals

LookupFrame ==
  UNCHANGED <<mapVars, procVars, keyVars, mouseVars, windowVars, playerVars,
              gameVars, clock, obsVars>>

\* Game_getMapFieldByIndicies on indices in and around the grid.
LookupByIndicies ==
  \E x \in -LookupMargin .. mapWidth + LookupMargin,
     z \in -LookupMargin .. mapDepth + LookupMargin :
    /\ query.op = "none"
    /\ query' = [op |-> "indicies", x |-> x, z |-> z]
    /\ answer' = Game_getMapFieldByIndicies(x, z)
    /\ LookupFrame

\* Game_getMapFieldByPosition on positions in and around the grid, half
\* a field apart.
LookupByPosition ==
  \E i \in -2 * LookupMargin .. 2 * (mapWidth + LookupMargin),
     k \in -2 * LookupMargin .. 2 * (mapDepth + LookupMargin) :
    LET x == i * (Unit \div 2)
        z == k * (Unit \div 2)
    IN  /\ query.op = "none"
        /\ query' = [op |-> "position", x |-> x, z |-> z]
        /\ answer' = Game_getMapFieldByPosition(x, z)
        /\ LookupFrame

\* Game_getMapFieldByPosition on the position of a field of the grid.
LookupRoundTrip ==
  \E x \in 0 .. mapWidth - 1, z \in 0 .. mapDepth - 1 :
    LET position == Game_getMapFieldPositionByIndicies(x, z)
    IN  /\ query.op = "none"
        /\ query' = [op |-> "roundtrip", x |-> x, z |-> z]
        /\ answer' = Game_getMapFieldByPosition(position.x, position.z)
        /\ LookupFrame

NextLookup == LookupByIndicies \/ LookupByPosition \/ LookupRoundTrip

SpecLookup == InitLookup /\ [][NextLookup]_vars

---------------------------------------------------------------------------
(* Properties of the lookups *)

\* The field stored for a cell of the grid.
CellField(x, z) == map[x * mapDepth + z + 1]

\* C7: Game_getMapFieldByIndicies fails for every x outside [0, mapWidth)
\* and every z outside [0, mapDepth), the indices x = mapWidth and
\* z = mapDepth included, and never answers from outside the map array.
C7_IndexLookupIsBoundsChecked ==
  query.op = "indicies" =>
    /\ answer.kind # "outside"
    /\ ~InGrid(query.x, query.z) => answer = Terminated

\* C8: Game_getMapFieldByPosition rounds the position to indices and
\* answers as the bounds-checked lookup does: a position whose rounded
\* indices lie outside the grid ends the program, and no answer comes from
\* outside the map array.
C8_PositionLookupIsBoundsChecked ==
  query.op = "position" =>
    /\ answer.kind # "outside"
    /\ ~InGrid(roundf(query.x), roundf(query.z)) => answer = Terminated

\* C9: for all indices of the grid, the field looked up at the position
\* of the indices is the field looked up at the indices, and it is the
\* field the map stores for that cell.
C9_PositionOfIndexRoundTrip ==
  query.op = "roundtrip" =>
    /\ answer = Game_getMapFieldByIndicies(query.x, query.z)
    /\ answer = Found(CellField(query.x, query.z))

\* The lookup at the position of the item of the embedded map answers Item.
C9_Witness ==
  /\ query.op = "roundtrip"
  /\ mapWidth = EmbeddedWidth
  /\ query.x = 12 /\ query.z = 9
  /\ answer = Found(Item)

---------------------------------------------------------------------------
(* Properties of the game *)

\* The fields of the grid within one cell of a cell.
Neighbourhood(cx, cz) ==
  {CellField(x, z) : x \in {i \in cx - 1 .. cx + 1 : i >= 0 /\ i < mapWidth},
                     z \in {k \in cz - 1 .. cz + 1 : k >= 0 /\ k < mapDepth}}

\* The fields around the cell the player is in.
PlayerNeighbourhood == Neighbourhood(roundf(playerX), roundf(playerZ))

\* The last tick ran to its end.
TickCompleted == lastTick.seen /\ lastTick.end = "ok"

\* The candidate position of the last tick lies in a cell of the grid.
CandidateInGrid ==
  lastTick.seen /\ InGrid(roundf(lastTick.candX), roundf(lastTick.candZ))

CandidateField == CellField(roundf(lastTick.candX), roundf(lastTick.candZ))

\* C1: the item state only moves forward over every step of the program:
\* a held item is never back in its initial state, and a dropped item
\* stays dropped.
C1_ItemStateMonotonic ==
  [][/\ itemState = Held => itemState' # Initial
     /\ itemState = Dropped => itemState' = Dropped]_vars

\* A tick with the action key down ran while the item was dropped.
C1_Witness ==
  /\ TickCompleted
  /\ lastTick.action
  /\ lastTick.startItem = Dropped
  /\ itemState = Dropped

\* C2: after a tick with the action key down, an item field around the
\* player's cell and the item in its initial state at the start of the
\* tick mean the item is held at the end of the tick; a goal field around
\* the player's cell and the item held at the start mean it is dropped.
C2_InteractTransitions ==
  TickCompleted /\ lastTick.action =>
    /\ lastTick.startItem = Initial /\ Item \in PlayerNeighbourhood
         => itemState = Held
    /\ lastTick.startItem = Held /\ Goal \in PlayerNeighbourhood
         => itemState = Dropped

\* C3: a tick leaves the item state as it was when the action key is up,
\* when the item is in its initial state and no item field is around the
\* player's cell, when the item is held and no goal field is around the
\* player's cell, and when the item is dropped.
C3_InteractFrame ==
  TickCompleted =>
    /\ ~lastTick.action => itemState = lastTick.startItem
    /\ lastTick.startItem = Initial /\ Item \notin PlayerNeighbourhood
         => itemState = Initial
    /\ lastTick.startItem = Held /\ Goal \notin PlayerNeighbourhood
         => itemState = Held
    /\ lastTick.startItem = Dropped => itemState = Dropped

\* C4: a tick changes the item state at most once: a tick that starts
\* with the item in its initial state never ends with the item dropped.
C4_OneChangePerTick ==
  lastTick.seen /\ lastTick.startItem = Initial => itemState # Dropped

\* C5: a tick whose candidate position (the position plus the velocity
\* after friction) rounds to a cell of the grid takes the candidate
\* exactly when the field of that cell is Init, Arch or Tile; otherwise
\* both velocity components are negated and the position is the old
\* position plus the negated velocity.
C5_CollisionResolution ==
  CandidateInGrid =>
    /\ lastTick.candX = lastTick.fromX + lastTick.velX
    /\ lastTick.candZ = lastTick.fromZ + lastTick.velZ
    /\ IF CandidateField \in {FieldInit, Arch, Tile}
         THEN /\ lastTick.moved = "committed"
              /\ playerX = lastTick.candX
              /\ playerZ = lastTick.candZ
              /\ playerAccerlationX = lastTick.velX
              /\ playerAccerlationZ = lastTick.velZ
         ELSE /\ lastTick.moved = "rejected"
              /\ playerAccerlationX = -lastTick.velX
              /\ playerAccerlationZ = -lastTick.velZ
              /\ playerX = lastTick.fromX + playerAccerlationX
              /\ playerZ = lastTick.fromZ + playerAccerlationZ

\* A moving player was turned back by the item field.
C5_Witness ==
  /\ CandidateInGrid
  /\ CandidateField = Item
  /\ lastTick.moved = "rejected"
  /\ lastTick.velZ # 0
  /\ playerZ = lastTick.fromZ - lastTick.velZ

\* C6: a tick whose candidate position rounds to a wall cell never ends
\* with the player's position rounding to that wall cell, and the
\* velocity after the tick is the negation of the velocity that gave the
\* candidate.
C6_NeverEndsInTheWall ==
  CandidateInGrid /\ CandidateField = Wall =>
    /\ ~(/\ roundf(playerX) = roundf(lastTick.candX)
         /\ roundf(playerZ) = roundf(lastTick.candZ))
    /\ playerAccerlationX = -lastTick.velX
    /\ playerAccerlationZ = -lastTick.velZ

\* The map has no spawn field.
NoSpawn == \A i \in 1 .. LengthOfMap : map[i] # FieldInit

\* C10: when the map's length differs from mapWidth * mapDepth or the
\* map has no spawn field, loading ends the program with the fatal error
\* before any callback is registered, any timer is armed, and any tick,
\* redraw or input callback has run.
C10_BadMapEndsAtLoad ==
  (LengthOfMap # mapWidth * mapDepth \/ NoSpawn) /\ status # "start" =>
    /\ status = "fatal"
    /\ ~isLoaded
    /\ ~registered
    /\ timers = 0
    /\ ticks = 0 /\ inputs = 0
    /\ ~lastTick.seen
    /\ ~frame.drawn

\* Loading a map of the right size ended after the search for the spawn.
C10_Witness ==
  /\ status = "fatal"
  /\ LengthOfMap = mapWidth * mapDepth /\ NoSpawn
  /\ playerX = mapWidth * Unit

---------------------------------------------------------------------------
(* The load on its own, over every small map *)

\* Every map of LoadWidth * LoadDepth fields of spawn points, tiles and
\* walls.
LoadMaps == [1 .. LoadWidth * LoadDepth -> {FieldInit, Tile, Wall}]

\* The load is tried on every small map, on the valid grids and on the
\* embedded map.
InitLoad ==
  /\ \/ map \in LoadMaps /\ mapWidth = LoadWidth /\ mapDepth = LoadDepth
     \/ \E g \in ValidGrids \cup {GridEmbedded} :
          map = g.cells /\ mapWidth = g.w /\ mapDepth = g.d
  /\ Globals

NextLoad == Game_onLoad \/ MainLoop

SpecLoad == InitLoad /\ [][NextLoad]_vars

\* The indices into map (from 1) of the spawn points.
SpawnPoints == {i \in 1 .. LengthOfMap : map[i] = FieldInit}

\* The first spawn point in the order of the search: x by x, z by z.
FirstSpawn == CHOOSE i \in SpawnPoints : \A k \in SpawnPoints : i <= k

Loaded == status \in {"loaded", "running"}

\* C11 (as claimed): the load of a map with two or more spawn points ends
\* in the fatal error.
C11_TwoSpawnsAreFatal ==
  Cardinality(SpawnPoints) >= 2 /\ status # "start" => status = "fatal"

\* C11 (amended): the load ends in the fatal error for a map without a
\* spawn point; a load that completes found at least one spawn point and
\* puts the player on the first one of the search order, however many
\* there are.
C11_FirstSpawnIsTaken ==
  /\ SpawnPoints = {} /\ status # "start" => status = "fatal"
  /\ Loaded =>
       /\ SpawnPoints # {}
       /\ playerX = ((FirstSpawn - 1) \div mapDepth) * Unit
       /\ playerZ = ((FirstSpawn - 1) % mapDepth) * Unit

\* A map with spawn points at (0,1) and (1,0) was loaded and the game
\* runs, the player at (0,1).
C11_Witness ==
  /\ status = "running"
  /\ SpawnPoints = {2, mapDepth + 1}
  /\ playerX = 0 /\ playerZ = Unit

---------------------------------------------------------------------------
(* A long run: the fades from start to end *)

\* The only key of a long run: interact.
FadeKeys == {"e"}

\* Milliseconds between two ticks of a long run: the nominal timer
\* period and one stall.
LongDeltas == {UPDATE_TIMEOUT_MS, 1000}

InitFade ==
  /\ map = GridItemFirst.cells
  /\ mapWidth = GridItemFirst.w /\ mapDepth = GridItemFirst.d
  /\ Globals

\* The timer is armed, for as long as the run lasts and until a fade-out
\* that began is through.
TimerDue ==
  /\ Dispatching
  /\ timers > 0
  /\ clock < MaxClock \/ (itemState = Dropped /\ status = "running")

\* The timer fires and glut calls Game_onUpdate.
Game_onUpdateLong ==
  /\ TimerDue
  /\ ticks' = ticks + 1
  /\ \E dt \in LongDeltas :
       \E read \in Resolve(CollisionLookup(dt)) : UpdateWith(dt, read)
  /\ UNCHANGED <<mapVars, isLoaded, registered, created, keyVars, mouseVars,
                 windowVars, frame, inputs, lookupVars>>

NextFade ==
  \/ Game_onLoad
  \/ MainLoop
  \/ MainReturn
  \/ \E key \in FadeKeys : Game_onKeyboardDown(key)
  \/ Game_onUpdateLong

SpecFade == InitFade /\ [][NextFade]_vars

\* The timer is re-armed by every tick, and glut fires an armed timer:
\* a tick that is due arrives.  Only Game_onUpdateLong counts the ticks.
TickArrives == TimerDue /\ ticks' = ticks + 1

SpecFadeFair == SpecFade /\ WF_ticks(TickArrives)

---------------------------------------------------------------------------
(* Properties of the fades *)

\* C12 (as claimed): the brightness is within [0, 1] in every state.
C12_BrightnessInUnitRange == gameBrightness >= 0 /\ gameBrightness <= Unit

\* C12 (amended): the brightness never exceeds 1 and is not negative
\* unless the item is dropped: the last step of the fade-out may take it
\* below 0.
C12_BrightnessBounds ==
  /\ gameBrightness <= Unit
  /\ itemState # Dropped => gameBrightness >= 0

\* The fade-out went through 0.
C12_Witness ==
  /\ itemState = Dropped
  /\ gameBrightness < 0
  /\ lastTick.startItem = Dropped

\* C13: while the item is in its initial state no step lowers the
\* brightness, and once the ticks' deltaSeconds sum to 2 seconds or more
\* the brightness is exactly 1 for as long as the item stays in its
\* initial state.
C13_FadeIn ==
  [][/\ itemState = Initial => gameBrightness' >= gameBrightness
     /\ itemState' = Initial /\ lastUpdateTime' >= 2 * Unit
          => gameBrightness' = Unit]_vars

\* Ticks of the timer period took the brightness to 1.
C13_Witness ==
  /\ itemState = Initial
  /\ lastUpdateTime >= 2 * Unit
  /\ lastTick.dt = UPDATE_TIMEOUT_MS
  /\ ticks * UPDATE_TIMEOUT_MS = clock
  /\ gameBrightness = Unit

\* All ticks so far came after one timer period each, the item in its
\* initial state.
SteadyFadeIn ==
  /\ status = "running"
  /\ itemState = Initial
  /\ clock = ticks * UPDATE_TIMEOUT_MS

\* C14 (as claimed): after 34 ticks of 0.03 seconds from brightness 0,
\* the item in its initial state, the brightness is at least 1.
C14_FullAfter34Ticks == SteadyFadeIn /\ ticks = 34 => gameBrightness >= Unit

\* C14 (amended): after n ticks of 0.03 seconds from brightness 0, the
\* item in its initial state, the brightness is MIN(1, n * 0.015): 0.51
\* after 34 ticks, and 1 from the 67th tick on and not before.
C14_FullAfter67Ticks ==
  SteadyFadeIn =>
    /\ gameBrightness =
         Min(Unit, ticks * Mul(FADEOUT_SPEED, UPDATE_TIMEOUT_MS))
    /\ ticks = 34 => gameBrightness = 510
    /\ gameBrightness >= Unit <=> ticks >= 67

\* The 67th tick of 0.03 seconds made the brightness 1.
C14_Witness ==
  /\ SteadyFadeIn
  /\ ticks = 67
  /\ gameBrightness = Unit

\* C15: while the item is dropped a tick lowers a positive brightness by
\* 0.5 * deltaSeconds and a tick that finds the brightness at or below 0
\* calls Game_onDestroy; so, with ticks arriving, a dropped item leads to
\* the end of the session.
C15_FadeOutEnds ==
  /\ [][itemState = Dropped /\ ticks' = ticks + 1 =>
          IF gameBrightness > 0
            THEN /\ gameBrightness' =
                      gameBrightness - Mul(FADEOUT_SPEED, lastTick'.dt)
                 /\ destroyed' = destroyed
            ELSE /\ gameBrightness' = gameBrightness
                 /\ destroyed' = destroyed + 1
                 /\ status' = "leaving"]_vars
  /\ (itemState = Dropped) ~> (destroyed > 0 /\ status \in {"leaving", "exited"})

\* The fade-out from full brightness was through and its last tick ended
\* the session.
C15_Witness ==
  /\ itemState = Dropped
  /\ lastTick.destroys
  /\ destroyed = 1
  /\ status = "leaving"
  /\ lastUpdateTime >= 4 * Unit

---------------------------------------------------------------------------
(* Properties of the player's height and look *)

\* A tick ran through the move of the player.
TickMoves == ticks' = ticks + 1 /\ lastTick'.moved # "none"

\* C16: the player's height is never negative: every tick sets it to
\* MAX(0, height + vertical velocity), whichever branch gave the
\* vertical velocity.
C16_HeightNeverNegative ==
  /\ [](playerY >= 0)
  /\ [][TickMoves => playerY' = Max(0, playerY + playerAccerlationY')]_vars

\* A fall ended on the floor: the height plus the velocity was below 0.
C16_Witness ==
  /\ lastTick.moved # "none"
  /\ playerY = 0
  /\ playerAccerlationY < 0


\* C17 (as claimed): a tick of the fade-in, the item in its initial state
\* and the brightness below 1 before and after it, changes neither the
\* look rates nor the look angles, wherever the mouse is.
C17_LookSuppressed ==
  [][/\ ticks' = ticks + 1
     /\ itemState = Initial
     /\ gameBrightness < Unit /\ gameBrightness' < Unit
     => /\ playerRotationAccerlationY' = playerRotationAccerlationY
        /\ playerRotationAccerlationX' = playerRotationAccerlationX
        /\ playerRotationY' = playerRotationY
        /\ playerRotationX' = playerRotationX]_vars

\* C17 (amended): every tick scales the mouse's offset from the centre of
\* the window by the brightness the tick's fade step gave, adds it to the
\* look rates, damps the rates and adds them to the look angles: during
\* the fade-in the look is weakened, and is not suppressed.
C17_LookScaledByBrightness ==
  [][ticks' = ticks + 1 =>
       LET offsetX == Captured(currentWindowWidth) - currentMouseX * Unit
           offsetY == Captured(currentWindowHeight) - currentMouseY * Unit
           deltaSeconds == lastTick'.dt
       IN  /\ playerRotationAccerlationY' =
                RotationAccerlationAfter(playerRotationAccerlationY,
                                         Mul(offsetX, gameBrightness'),
                                         deltaSeconds)
           /\ playerRotationAccerlationX' =
                RotationAccerlationAfter(playerRotationAccerlationX,
                                         Mul(offsetY, gameBrightness'),
                                         deltaSeconds)
           /\ playerRotationY' = playerRotationY + playerRotationAccerlationY'
           /\ playerRotationX' = playerRotationX + playerRotationAccerlationX'
    ]_vars

\* The first tick of the fade-in turned the player, the mouse off the
\* centre of the window.
C17_Witness ==
  /\ ticks = 1
  /\ itemState = Initial
  /\ gameBrightness > 0 /\ gameBrightness < Unit
  /\ currentWindowWidth = DEFAULT_WINDOW_WIDTH
  /\ Captured(currentWindowWidth) # currentMouseX * Unit
  /\ playerRotationAccerlationY # 0
  /\ playerRotationY # 0

---------------------------------------------------------------------------
(* Properties of the frames and of the resources *)

\* C18: a frame draws the crystal at the player exactly when the item is
\* held, on an item field only when the item is in its initial state,
\* and above a goal field only when the item is dropped; no frame after
\* the pickup draws the crystal on the item field.
C18_CrystalBranchMatchesItemState ==
  /\ [](frame.drawn =>
          /\ "player" \in frame.crystal <=> frame.item = Held
          /\ "item" \in frame.crystal => frame.item = Initial
          /\ "goal" \in frame.crystal => frame.item = Dropped)
  /\ [][frame' # frame =>
          /\ frame'.item = itemState
          /\ itemState # Initial => "item" \notin frame'.crystal]_vars

\* A frame after the pickup, next to the item field: the crystal is drawn
\* at the player only.
C18_Witness ==
  /\ frame.drawn
  /\ frame.item = Held
  /\ frame.crystal = {"player"}
  /\ Item \in PlayerNeighbourhood

---------------------------------------------------------------------------
(* Paced runs: keys pressed first, then a few ticks of chosen lengths *)

PaceKeys == {"w", "d", " "}

\* Milliseconds between two ticks of a paced run: a length, its double
\* and the double of that.
PaceDeltas == {50, 100, 200}

\* A key goes down before the first tick.
PaceKeyDown == ticks = 0 /\ \E key \in PaceKeys : Game_onKeyboardDown(key)

\* The timer fires and glut calls Game_onUpdate.
Game_onUpdatePaced ==
  /\ Dispatching
  /\ timers > 0
  /\ ticks < MaxPaceTicks
  /\ ticks' = ticks + 1
  /\ \E dt \in PaceDeltas :
       \E read \in Resolve(CollisionLookup(dt)) : UpdateWith(dt, read)
  /\ UNCHANGED <<mapVars, isLoaded, registered, created, keyVars, mouseVars,
                 windowVars, frame, inputs, lookupVars>>

NextPace == Game_onLoad \/ MainLoop \/ PaceKeyDown \/ Game_onUpdatePaced

SpecPace == InitFade /\ [][NextPace]_vars

\* Where Game_onLoad put the player.
SpawnPosition ==
  Game_getMapFieldPositionByIndicies(SpawnSearch[1], SpawnSearch[2])

\* Where one tick of deltaSeconds takes a player at rest on the spawn
\* point who looks along the z axis, with the keys that are down now.
OneTickFromRest(deltaSeconds) ==
  LET newAccerlation == NewAccerlation(AxisAccerlation, 0)
  IN  [x |-> SpawnPosition.x
               + HorizontalAccerlationAfter(0, newAccerlation.x, deltaSeconds),
       z |-> SpawnPosition.z
               + HorizontalAccerlationAfter(0, newAccerlation.z, deltaSeconds),
       y |-> IF inputJump
               THEN Max(0, Mul(PLAYER_JUMP_SPEED, deltaSeconds))
               ELSE 0]

\* Two ticks of the same length ran, the keys down since before the first.
TwoEqualTicks ==
  /\ status = "running"
  /\ ticks = 2
  /\ lastTick.end = "ok"
  /\ clock = 2 * lastTick.dt

\* C20: two ticks of deltaSeconds = d take the player where one tick of
\* deltaSeconds = 2d does, in x, z and height, up to the rounding of the
\* arithmetic.
C20_FramerateIndependent ==
  TwoEqualTicks =>
    /\ Abs(playerX - OneTickFromRest(clock).x) <= PaceTolerance
    /\ Abs(playerZ - OneTickFromRest(clock).z) <= PaceTolerance
    /\ Abs(playerY - OneTickFromRest(clock).y) <= PaceTolerance


---------------------------------------------------------------------------
(* Who writes what *)

\* What Game_onLoad and Game_onUpdate own: the player's position, velocity
\* and look, the item state and the brightness.
OwnedByTick == <<playerVars, itemState, gameBrightness>>

\* C21: once the game is loaded only the tick changes the player's
\* position, velocity and rotation, the item state and the brightness;
\* and only a keyboard callback changes one of the six input flags: a
\* step that is not a tick, and draws no frame and moves neither the
\* mouse position nor the window size.
C21_StateOwnership ==
  [][isLoaded =>
       /\ OwnedByTick' # OwnedByTick => ticks' = ticks + 1
       /\ keyVars' # keyVars =>
            /\ ticks' = ticks /\ inputs' = inputs + 1
            /\ frame' = frame
            /\ mouseVars' = mouseVars /\ windowVars' = windowVars
            /\ OwnedByTick' = OwnedByTick]_vars

\* The mouse was moved off the centre of the window and a frame was
\* drawn, a key down, before any tick: the player is where the load put
\* it.
C21_Witness ==
  /\ isLoaded /\ ticks = 0
  /\ frame.drawn
  /\ currentWindowWidth = DEFAULT_WINDOW_WIDTH
  /\ Captured(currentWindowWidth) # currentMouseX * Unit
  /\ inputForward
  /\ playerRotationY = 0 /\ playerAccerlationZ = 0

---------------------------------------------------------------------------
(* Jump runs: the jump key and the ticks, until the player is at rest *)

JumpKeys == {" "}

\* The vertical motion has come to its end: the jump key is up, the
\* velocity is 0 and the height is not above the threshold, so that every
\* further tick takes the last branch and leaves both as they are.
VerticalRest ==
  /\ ~inputJump
  /\ playerAccerlationY = 0
  /\ playerY <= CALCULATION_TRESHOLD

\* The timer is armed, for as long as the run lasts and, the jump key up,
\* until the player is at rest.
JumpTimerDue ==
  /\ Dispatching
  /\ timers > 0
  /\ clock < MaxJumpClock \/ (~inputJump /\ ~VerticalRest)

\* The timer fires and glut calls Game_onUpdate: after a timer period or
\* a stall early in the run, after a timer period later on.
Game_onUpdateJump ==
  /\ JumpTimerDue
  /\ ticks' = ticks + 1
  /\ \E dt \in IF clock < MaxJumpClock THEN LongDeltas
                                        ELSE {UPDATE_TIMEOUT_MS} :
       \E read \in Resolve(CollisionLookup(dt)) : UpdateWith(dt, read)
  /\ UNCHANGED <<mapVars, isLoaded, registered, created, keyVars, mouseVars,
                 windowVars, frame, inputs, lookupVars>>

NextJump ==
  \/ Game_onLoad
  \/ MainLoop
  \/ \E key \in JumpKeys : Game_onKeyboardDown(key)
  \/ \E key \in JumpKeys : Game_onKeyboardUp(key)
  \/ Game_onUpdateJump

SpecJump == InitFade /\ [][NextJump]_vars

\* A tick that is due arrives.  Only Game_onUpdateJump counts the ticks.
JumpTickArrives == JumpTimerDue /\ ticks' = ticks + 1

SpecJumpFair == SpecJump /\ WF_ticks(JumpTickArrives)

\* C22: every tick decides the vertical velocity by the first of four
\* cases that applies: the height above the threshold, gravity is
\* subtracted, whatever the jump key; else the jump key down, the
\* velocity is the jump impulse; else the velocity beyond the threshold,
\* it is negated and scaled by the bounciness; else it is 0.
C22_VerticalPriority ==
  [][ticks' = ticks + 1 =>
       LET deltaSeconds == lastTick'.dt
       IN  playerAccerlationY' =
             IF playerY > CALCULATION_TRESHOLD
               THEN playerAccerlationY - Mul(PLAYER_GRAVITY, deltaSeconds)
               ELSE IF inputJump
                 THEN Mul(PLAYER_JUMP_SPEED, deltaSeconds)
                 ELSE IF Abs(playerAccerlationY) > CALCULATION_TRESHOLD
                   THEN -Mul(playerAccerlationY, FLOOR_BOUNCYNESS)
                   ELSE 0]_vars

\* The player came down from a jump and bounced off the floor, the jump
\* key up.
C22_Witness ==
  /\ lastTick.seen
  /\ ~inputJump
  /\ playerAccerlationY > 0
  /\ playerY = playerAccerlationY
  /\ playerY <= CALCULATION_TRESHOLD

---------------------------------------------------------------------------
(* Properties of the timer *)

\* C23: a tick that runs to its end calls glutPostRedisplay once and
\* glutTimerFunc once, and only main and the tick arm a timer, so that one
\* timer is pending whenever callbacks are dispatched; the tick's
\* deltaSeconds is the clock it read less lastUpdateTime, and
\* lastUpdateTime is that clock after it: the deltaSeconds of the ticks
\* add up to the time since the load.
C23_OneTimerNoTimeLost ==
  /\ [](Dispatching => timers = 1)
  /\ [](status = "running" => lastUpdateTime = clock)
  /\ [][timers' # timers => status = "loaded" \/ ticks' = ticks + 1]_vars
  /\ [][ticks' = ticks + 1 =>
          /\ lastTick'.dt = clock' - lastUpdateTime
          /\ lastTick'.end = "ok" =>
               /\ lastTick'.posted = 1
               /\ lastTick'.armed = 1
               /\ timers' = timers
               /\ lastUpdateTime' = clock']_vars

\* Two ticks ran, one after a timer period and one after a stall.
C23_Witness ==
  /\ ticks = 2
  /\ TickCompleted
  /\ lastTick.armed = 1 /\ lastTick.posted = 1
  /\ timers = 1
  /\ clock = UPDATE_TIMEOUT_MS + 1000
  /\ lastUpdateTime = clock

---------------------------------------------------------------------------
(* Properties of the state after the load *)

\* C24: after a load that completed the player stands exactly on the
\* first spawn field of the search order, at height 0, the item in its
\* initial state and the brightness 0; on the embedded map that is the
\* field (7, 1).
C24_StandsOnSpawn ==
  Loaded /\ ticks = 0 =>
    LET index == Game_getMapFieldIndiciesByPosition(playerX, playerZ)
    IN  /\ playerX = index.x * Unit /\ playerZ = index.z * Unit
        /\ InGrid(index.x, index.z)
        /\ CellField(index.x, index.z) = FieldInit
        /\ \A x \in 0 .. mapWidth - 1, z \in 0 .. mapDepth - 1 :
             CellField(x, z) = FieldInit =>
               x > index.x \/ (x = index.x /\ z >= index.z)
        /\ playerY = 0 /\ itemState = Initial /\ gameBrightness = 0
        /\ map = EmbeddedMap => index.x = 7 /\ index.z = 1

\* The embedded map was loaded: the player is at (7, 1).
C24_Witness ==
  /\ status = "running"
  /\ map = EmbeddedMap
  /\ playerX = 7 * Unit /\ playerZ = Unit
  /\ playerY = 0

---------------------------------------------------------------------------
(* The game on the embedded map *)

InitEmbedded ==
  /\ map = GridEmbedded.cells
  /\ mapWidth = GridEmbedded.w /\ mapDepth = GridEmbedded.d
  /\ Globals

SpecEmbedded == InitEmbedded /\ [][Next]_vars

\* The indices of the field the player's position rounds to.
PlayerField == Game_getMapFieldIndiciesByPosition(playerX, playerZ)

\* C26: once the game is loaded the player's position rounds to a field
\* of the grid that is a spawn point, an arch or a tile, after every tick:
\* also after one that rejected the move and stepped back.
C26_AlwaysOnFreeField ==
  Loaded \/ status = "leaving" =>
    /\ InGrid(PlayerField.x, PlayerField.z)
    /\ CellField(PlayerField.x, PlayerField.z) \in {FieldInit, Arch, Tile}

\* C27: every lookup of a tick has indices of the grid: the rounded
\* candidate position of the collision lookup and, the action key down,
\* the nine fields probed around the player's field.
C27_LookupsInGrid ==
  lastTick.seen =>
    /\ InGrid(roundf(lastTick.candX), roundf(lastTick.candZ))
    /\ lastTick.action /\ lastTick.moved # "none" =>
         \A k \in 1 .. 9 :
           LET cell == ProbeCells(PlayerField.x, PlayerField.z)[k]
           IN  InGrid(cell.x, cell.z)

---------------------------------------------------------------------------
(* Properties of the damping *)

\* A damped value has the sign of the value before the damping, or is 0,
\* and is no larger in magnitude.
Damped(before, after) ==
  /\ before >= 0 => after >= 0
  /\ before <= 0 => after <= 0
  /\ Abs(after) <= Abs(before)

\* C28: whatever the deltaSeconds of a tick, its friction steps leave
\* each horizontal velocity component and each look rate with the sign it
\* had after the tick's push and with a magnitude no larger.
C28_DampingOnlyDamps ==
  [][ticks' = ticks + 1 =>
       LET deltaSeconds == lastTick'.dt
           newAccerlation == NewAccerlation(AxisAccerlation, playerRotationY')
           pushedX ==
             playerAccerlationX
               + Mul(newAccerlation.x, Mul(deltaSeconds, PLAYER_MAX_SPEED))
           pushedZ ==
             playerAccerlationZ
               + Mul(newAccerlation.z, Mul(deltaSeconds, PLAYER_MAX_SPEED))
           offsetX == Captured(currentWindowWidth) - currentMouseX * Unit
           offsetY == Captured(currentWindowHeight) - currentMouseY * Unit
           pushedRotationY ==
             playerRotationAccerlationY
               + Mul(Mul(Mul(offsetX, gameBrightness'), MOUSE_SPEED),
                     deltaSeconds)
           pushedRotationX ==
             playerRotationAccerlationX
               + Mul(Mul(Mul(offsetY, gameBrightness'), MOUSE_SPEED),
                     deltaSeconds)
       IN  /\ Damped(pushedX, lastTick'.velX)
           /\ Damped(pushedZ, lastTick'.velZ)
           /\ Damped(pushedRotationY, playerRotationAccerlationY')
           /\ Damped(pushedRotationX, playerRotationAccerlationX')]_vars

---------------------------------------------------------------------------
(* Properties of the end of the session *)

\* C30: once Game_onDestroy released the resources no step changes the
\* game state, draws a frame, asks for a redraw or arms a timer; and the
\* tick that calls Game_onDestroy does nothing after the call: it neither
\* moves nor turns the player, asks for no redraw and arms no timer.
C30_EndIsTerminal ==
  [][/\ destroyed > 0 =>
          /\ playerVars' = playerVars
          /\ gameVars' = gameVars
          /\ frame' = frame
          /\ lastTick' = lastTick
          /\ timers' <= timers
     /\ destroyed = 0 /\ ticks' = ticks + 1 /\ lastTick'.destroys =>
          /\ playerVars' = playerVars
          /\ lastUpdateTime' = lastUpdateTime
          /\ lastTick'.posted = 0
          /\ lastTick'.armed = 0]_vars

---------------------------------------------------------------------------
(* A quest on the embedded map: a player who holds the interact key and   *)
(* walks a route, one movement key at a time, ticks at the timer period.  *)

\* From the spawn field to a field next to the item, field by field.
QuestRouteToItem ==
  << <<7, 1>>, <<7, 2>>, <<7, 3>>, <<7, 4>>, <<7, 5>>, <<8, 5>>, <<8, 6>>,
     <<8, 7>>, <<7, 7>>, <<6, 7>>, <<6, 8>>, <<6, 9>>, <<7, 9>>, <<8, 9>>,
     <<9, 9>>, <<10, 9>>, <<10, 8>>, <<10, 7>>, <<10, 6>>, <<10, 5>>,
     <<11, 5>>, <<11, 4>>, <<11, 3>>, <<11, 2>>, <<11, 1>>, <<12, 1>>,
     <<13, 1>>, <<13, 2>>, <<13, 3>>, <<13, 4>>, <<13, 5>>, <<13, 6>>,
     <<13, 7>>, <<12, 7>>, <<12, 8>> >>

\* From there to a field next to the goal.
QuestRouteToGoal ==
  << <<12, 8>>, <<12, 7>>, <<13, 7>>, <<13, 6>>, <<13, 5>>, <<13, 4>>,
     <<13, 3>>, <<13, 2>>, <<13, 1>>, <<12, 1>>, <<11, 1>>, <<11, 2>>,
     <<11, 3>>, <<11, 4>>, <<11, 5>>, <<10, 5>>, <<10, 6>>, <<10, 7>>,
     <<10, 8>>, <<10, 9>>, <<9, 9>>, <<8, 9>>, <<7, 9>>, <<6, 9>>, <<6, 8>>,
     <<6, 7>>, <<7, 7>>, <<8, 7>>, <<8, 6>>, <<8, 5>>, <<7, 5>>, <<7, 4>>,
     <<7, 3>>, <<6, 3>> >>

QuestRoute ==
  IF itemState = Initial THEN QuestRouteToItem
  ELSE IF itemState = Held THEN QuestRouteToGoal
  ELSE << >>

MoveKeys == {"w", "a", "s", "d"}

\* The movement key the player wants down: the one that leads from the
\* field the player is on to the next field of the route; none off the
\* route and at its end.  The player looks along the z axis: 'w' and 's'
\* move along z, 'd' and 'a' along x.
QuestKey ==
  LET route == QuestRoute
      at == {i \in 1 .. Len(route) - 1 :
               route[i] = <<PlayerField.x, PlayerField.z>>}
  IN  IF at = {} THEN "none"
      ELSE LET i == CHOOSE k \in at : TRUE
               dx == route[i + 1][1] - route[i][1]
               dz == route[i + 1][2] - route[i][2]
           IN  IF dx = 1 THEN "d"
               ELSE IF dx = -1 THEN "a"
               ELSE IF dz = 1 THEN "w" ELSE "s"

\* The keys are as the player wants them.
QuestKeysSet ==
  /\ inputAction
  /\ \A key \in MoveKeys : Pressed(key) <=> key = QuestKey

\* A keyboard callback of a quest run is dispatched.
QuestEvent ==
  /\ registered /\ status = "running"
  /\ inputs' = inputs + 1
  /\ UNCHANGED <<frame, lastTick, ticks>>

\* The player lets go of a movement key that is not the wanted one.
QuestKeyUp ==
  \E key \in MoveKeys :
    /\ key # QuestKey
    /\ QuestEvent
    /\ KeyboardUp(key)

\* No wrong key down, the player presses the key that is missing: the
\* interact key first.
QuestKeyDown ==
  /\ \A key \in MoveKeys : Pressed(key) => key = QuestKey
  /\ ~QuestKeysSet
  /\ QuestEvent
  /\ KeyboardDown(IF inputAction THEN QuestKey ELSE "e")

\* The timer is armed and the keys are set, for as long as the quest
\* lasts.
QuestTimerDue ==
  /\ registered /\ status = "running"
  /\ timers > 0
  /\ QuestKeysSet
  /\ clock < MaxQuestClock

\* The timer fires after one timer period and glut calls Game_onUpdate.
Game_onUpdateQuest ==
  /\ QuestTimerDue
  /\ ticks' = ticks + 1
  /\ \E read \in Resolve(CollisionLookup(UPDATE_TIMEOUT_MS)) :
       UpdateWith(UPDATE_TIMEOUT_MS, read)
  /\ UNCHANGED <<mapVars, isLoaded, registered, created, keyVars, mouseVars,
                 windowVars, frame, inputs, lookupVars>>

NextQuest ==
  \/ Game_onLoad
  \/ MainLoop
  \/ MainReturn
  \/ QuestKeyUp
  \/ QuestKeyDown
  \/ Game_onUpdateQuest

SpecQuest == InitEmbedded /\ [][NextQuest]_vars

\* A tick that is due arrives, the player acts, and main goes on.
QuestTickArrives == QuestTimerDue /\ ticks' = ticks + 1

QuestKeyArrives ==
  /\ registered /\ status = "running"
  /\ ~QuestKeysSet
  /\ inputs' = inputs + 1

MainProceeds ==
  /\ status \in {"start", "loaded", "leaving"}
  /\ \E s \in {"loaded", "running", "exited", "fatal"} :
       status' = s /\ s # status

SpecQuestFair ==
  /\ SpecQuest
  /\ WF_ticks(QuestTickArrives)
  /\ WF_inputs(QuestKeyArrives)
  /\ WF_status(MainProceeds)

\* C25: the embedded map can be completed.  The player of the quest run
\* is on a spawn, arch or tile field in every state, picks the item up
\* with the item field next to the player's field, delivers it with the
\* goal field next to the player's field, and a game that runs leads to
\* the end of the session with the item delivered.
C25_EmbeddedMapCompletable ==
  /\ [](Loaded \/ status \in {"leaving", "exited"} =>
          /\ InGrid(PlayerField.x, PlayerField.z)
          /\ CellField(PlayerField.x, PlayerField.z)
               \in {FieldInit, Arch, Tile})
  /\ [][/\ itemState = Initial /\ itemState' # Initial =>
             itemState' = Held /\ Item \in PlayerNeighbourhood'
        /\ itemState = Held /\ itemState' # Held =>
             itemState' = Dropped /\ Goal \in PlayerNeighbourhood']_vars
  /\ (status = "running") ~>
       (status = "exited" /\ itemState = Dropped /\ destroyed = 1)

\* The quest is done: the item is delivered next to the goal, the fade-out
\* is through and main has returned.
C25_Witness ==
  /\ status = "exited"
  /\ itemState = Dropped
  /\ destroyed = 1
  /\ gameBrightness <= 0
  /\ Goal \in PlayerNeighbourhood
  /\ PlayerField.x = 6 /\ PlayerField.z = 3

====
